---------------------------- MODULE Spec2Model ----------------------------
(***************************************************************************)
(* ECIES over a twisted Edwards curve with a Poseidon keystream            *)
(* (algorithms/src/encryption/ecies_poseidon.rs), instantiated on a small  *)
(* curve: base field F_13, a = -1, d = 6, group order 20 = 4 * 5.          *)
(***************************************************************************)
EXTENDS Integers, Sequences, FiniteSets, TLC

\* ------------------------------------------------------------------ bounds
\* Longest message (in bytes) handed to encode_message.
MaxLen == 3
\* Longest element sequence handed to decode_message directly.
MaxElems == 3
\* Longest element sequence handed to encrypt directly.
MaxPlain == 2
\* Longest message (in bytes) sent through the encrypt/tamper/decrypt pipeline.
MaxSendLen == 1
\* How many iterations of decode_message's loop on an empty buffer are followed.
MaxEmptyPops == 2

\* The byte values messages are built from.
ByteValues == {0, 1, 128, 165, 255}

\* ------------------------------------------------- base field (TE::BaseField)
MODULUS == 13
MODULUS_BITS == 4
\* FieldParameters::CAPACITY: one bit less than the modulus.
CAPACITY == MODULUS_BITS - 1
\* Bits of the BigInteger representation (to_repr().to_bits_le()).
REPR_BITS == 8

Field == 0 .. (MODULUS - 1)

RECURSIVE Pow(_, _)
Pow(b, e) == IF e = 0 THEN 1 ELSE b * Pow(b, e - 1)

FAdd(x, y) == (x + y) % MODULUS
FSub(x, y) == (x - y + MODULUS) % MODULUS
FMul(x, y) == (x * y) % MODULUS
FNeg(x) == (MODULUS - x) % MODULUS

RECURSIVE FPow(_, _)
FPow(x, e) == IF e = 0 THEN 1 ELSE FMul(x, FPow(x, e - 1))

None == [some |-> FALSE]
Some(v) == [some |-> TRUE, val |-> v]

\* Field::inverse: None for zero.
FInverse(x) == IF x = 0 THEN None ELSE Some(FPow(x, MODULUS - 2))

\* Field::sqrt: a square root when one exists.
FSqrt(x) ==
    IF \E y \in Field : FMul(y, y) = x
    THEN Some(CHOOSE y \in Field : FMul(y, y) = x)
    ELSE None

\* PrimeField::from_repr: None when the integer is not below the modulus.
FromRepr(n) == IF n < MODULUS THEN Some(n) ELSE None

\* ------------------------------------------------------------ bit helpers
\* BigInteger::to_bits_le: bit i (from 1) is the bit of weight 2^(i-1).
ToBitsLE(n, width) == [i \in 1 .. width |-> (n \div Pow(2, i - 1)) % 2 = 1]

\* BigInteger::from_bits_le.
RECURSIVE FromBitsLE(_)
FromBitsLE(bits) ==
    IF bits = <<>> THEN 0
    ELSE (IF Head(bits) THEN 1 ELSE 0) + 2 * FromBitsLE(Tail(bits))

\* slice::chunks(size): consecutive chunks, the last one possibly shorter.
RECURSIVE Chunks(_, _)
Chunks(s, size) ==
    IF s = <<>> THEN <<>>
    ELSE IF Len(s) <= size THEN <<s>>
    ELSE <<SubSeq(s, 1, size)>> \o Chunks(SubSeq(s, size + 1, Len(s)), size)

\* slice::chunks_exact(size): only the full chunks.
RECURSIVE ChunksExact(_, _)
ChunksExact(s, size) ==
    IF Len(s) < size THEN <<>>
    ELSE <<SubSeq(s, 1, size)>> \o ChunksExact(SubSeq(s, size + 1, Len(s)), size)

RECURSIVE Concat(_)
Concat(ss) == IF ss = <<>> THEN <<>> ELSE Head(ss) \o Concat(Tail(ss))

RECURSIVE SeqsUpTo(_, _)
SeqsUpTo(S, n) ==
    IF n = 0 THEN {<<>>}
    ELSE LET shorter == SeqsUpTo(S, n - 1)
         IN  shorter \cup {Append(s, x) : s \in {t \in shorter : Len(t) = n - 1}, x \in S}

\* ---------------------------------------------------------- message codec
\* The bits of every byte without the terminus bit.
PlaintextBitsNoTerminus(message) ==
    Concat([i \in 1 .. Len(message) |-> ToBitsLE(message[i], 8)])
\* encode_message, lines 233-244: the bits of every byte, low bit first, then
\* the terminus bit.
PlaintextBits(message) ==
    Concat([i \in 1 .. Len(message) |-> ToBitsLE(message[i], 8)]) \o <<TRUE>>

\* A chunk size one larger than the capacity.
EncodeChunkSizeWide == CAPACITY + 1
\* encode_message, line 247: the chunk size.
EncodeChunkSize == CAPACITY

\* encode_message, lines 250-255: from_repr(from_bits_le(chunk)).unwrap() per chunk.
encode_message(message) ==
    LET chunks == Chunks(PlaintextBits(message), EncodeChunkSize)
        reprs  == [i \in 1 .. Len(chunks) |-> FromRepr(FromBitsLE(chunks[i]))]
    IN  IF \E i \in 1 .. Len(reprs) : ~reprs[i].some
        THEN [kind |-> "Panic"]
        ELSE [kind |-> "Ok", elems |-> [i \in 1 .. Len(reprs) |-> reprs[i].val]]

\* Every bit of the modulus' width of every element.
DecodeBitsWide(elems) ==
    Concat([i \in 1 .. Len(elems) |-> SubSeq(ToBitsLE(elems[i], REPR_BITS), 1, MODULUS_BITS)])
\* decode_message, lines 264-268: the low `capacity` bits of every element.
DecodeBits(elems) ==
    Concat([i \in 1 .. Len(elems) |-> SubSeq(ToBitsLE(elems[i], REPR_BITS), 1, CAPACITY)])

\* A byte from 8 bits, high bit first.
ByteOfBitsBE(chunk) == FromBitsLE([i \in 1 .. Len(chunk) |-> chunk[Len(chunk) + 1 - i]]) % 256
\* decode_message, lines 287-291: a byte from 8 bits, low bit first.
ByteOfBits(chunk) == FromBitsLE(chunk) % 256

\* The length test without the modulus.
DecodeFinishAnyLength(bits) ==
    LET chunks == ChunksExact(bits, 8)
    IN  [kind |-> "Ok", bytes |-> [i \in 1 .. Len(chunks) |-> ByteOfBits(chunks[i])]]
\* decode_message, lines 278-295: what follows the loop.
DecodeFinish(bits) ==
    IF Len(bits) % 8 # 0
    THEN [kind |-> "Err", error |-> "not a multiple of 8"]
    ELSE LET chunks == ChunksExact(bits, 8)
         IN  [kind |-> "Ok", bytes |-> [i \in 1 .. Len(chunks) |-> ByteOfBits(chunks[i])]]


\* ---------------------------------------------------------- stream cipher
\* from_bytes_le_mod_order(b"AleoSymmetricEncryption0"), reduced in this field.
symmetric_encryption_domain == 5

\* The sponge's permutation: an S-box x^5 and a round constant.
Permute(s) == FAdd(FPow(s, 5), 7)

\* PoseidonSponge::with_parameters: the fresh state.
SpongeNew == 0

\* AlgebraicSponge::absorb: the elements in order.
RECURSIVE SpongeAbsorb(_, _)
SpongeAbsorb(state, xs) ==
    IF xs = <<>> THEN state
    ELSE SpongeAbsorb(Permute(FAdd(state, Head(xs))), Tail(xs))

\* AlgebraicSponge::squeeze(n): n elements.
RECURSIVE SpongeSqueeze(_, _)
SpongeSqueeze(state, n) ==
    IF n = 0 THEN <<>>
    ELSE <<state>> \o SpongeSqueeze(Permute(state), n - 1)

\* encrypt and decrypt, lines 307-311 and 322-326: the keystream.
SpongeRandomizers(key, n) ==
    SpongeSqueeze(SpongeAbsorb(SpongeNew, <<symmetric_encryption_domain, key>>), n)

\* Itertools::zip_eq panics when the two lengths differ.
ZipEqOk(xs, ys) == Len(xs) = Len(ys)

\* encrypt, lines 305-315: plaintext + randomizer, element by element.
encrypt(key, msg) ==
    LET rs == SpongeRandomizers(key, Len(msg))
    IN  IF ~ZipEqOk(msg, rs) THEN [kind |-> "Panic"]
        ELSE [kind |-> "Ok", elems |-> [i \in 1 .. Len(msg) |-> FAdd(msg[i], rs[i])]]

\* The keystream added instead of subtracted.
DecryptCombineAdd(c, r) == FAdd(c, r)
\* decrypt, line 329: ciphertext - randomizer.
DecryptCombine(c, r) == FSub(c, r)

\* decrypt, lines 320-330.
decrypt(key, ct) ==
    LET rs == SpongeRandomizers(key, Len(ct))
    IN  IF ~ZipEqOk(ct, rs) THEN [kind |-> "Panic"]
        ELSE [kind |-> "Ok", elems |-> [i \in 1 .. Len(ct) |-> DecryptCombine(ct[i], rs[i])]]

\* ------------------------------------- curve (TwistedEdwardsParameters TE)
\* a * x^2 + y^2 = 1 + d * x^2 * y^2 over the base field; the group has
\* 20 = COFACTOR * SCALAR_MODULUS points.
COEFF_A == 12
COEFF_D == 6
\* TE::ScalarField: the order of the prime-order subgroup.
SCALAR_MODULUS == 5
SCALAR_REPR_BITS == 8
\* Bytes of a serialized base field element.
FIELD_BYTES == 1

Scalars == 0 .. (SCALAR_MODULUS - 1)

\* Affine::zero: the identity.
Zero == <<0, 1>>

\* Affine::to_x_coordinate.
ToXCoordinate(pt) == pt[1]

\* The twisted Edwards addition law.
TEAdd(p1, p2) ==
    LET x1 == p1[1]  y1 == p1[2]  x2 == p2[1]  y2 == p2[2]
        t  == FMul(COEFF_D, FMul(FMul(x1, x2), FMul(y1, y2)))
        xn == FAdd(FMul(x1, y2), FMul(y1, x2))
        yn == FSub(FMul(y1, y2), FMul(COEFF_A, FMul(x1, x2)))
    IN  <<FMul(xn, FInverse(FAdd(1, t)).val), FMul(yn, FInverse(FSub(1, t)).val)>>

\* BitIteratorBE::new: the bits of the representation, highest first.
BitsBE(n, width) == [i \in 1 .. width |-> (n \div Pow(2, width - i)) % 2 = 1]

\* BitIteratorBE::new_without_leading_zeros.
RECURSIVE StripLeadingZeros(_)
StripLeadingZeros(bs) ==
    IF bs = <<>> THEN <<>>
    ELSE IF Head(bs) THEN bs ELSE StripLeadingZeros(Tail(bs))
BitsBEWithoutLeadingZeros(n, width) == StripLeadingZeros(BitsBE(n, width))

\* Affine::mul_bits: double and add, from the identity.
RECURSIVE MulBitsFrom(_, _, _)
MulBitsFrom(res, pt, bs) ==
    IF bs = <<>> THEN res
    ELSE LET doubled == TEAdd(res, res)
         IN  MulBitsFrom(IF Head(bs) THEN TEAdd(doubled, pt) ELSE doubled, pt, Tail(bs))
MulBits(pt, bs) == MulBitsFrom(Zero, pt, bs)

\* Projective::mul by a scalar.
ScalarMul(pt, k) == MulBits(pt, BitsBE(k, SCALAR_REPR_BITS))

\* Affine::from_x_coordinate: y^2 = (a x^2 - 1) / (d x^2 - 1), and of y and -y
\* the greater when `greatest`, the lesser otherwise.
FromXCoordinate(x, greatest) ==
    LET x2    == FMul(x, x)
        numer == FSub(FMul(COEFF_A, x2), 1)
        denom == FInverse(FSub(FMul(COEFF_D, x2), 1))
        root  == IF denom.some THEN FSqrt(FMul(denom.val, numer)) ELSE None
    IN  IF ~root.some THEN None
        ELSE LET y    == root.val
                 negy == FNeg(y)
             IN  Some(<<x, IF (y < negy) # greatest THEN y ELSE negy>>)

\* Affine::is_in_correct_subgroup_assuming_on_curve: the point times the
\* subgroup order is the identity.
IsInCorrectSubgroup(pt) == MulBits(pt, BitsBE(SCALAR_MODULUS, SCALAR_REPR_BITS)) = Zero

\* ToBytes for a base field element: little-endian bytes.
FieldWriteLE(x) == [i \in 1 .. FIELD_BYTES |-> (x \div Pow(256, i - 1)) % 256]

RECURSIVE BytesValueLE(_)
BytesValueLE(bytes) ==
    IF bytes = <<>> THEN 0 ELSE Head(bytes) + 256 * BytesValueLE(Tail(bytes))

\* FromBytes for a base field element: an error when not below the modulus.
FieldReadLE(bytes) == FromRepr(BytesValueLE(bytes))

\* ----------------------------------------------------------- public key
\* ECIESPoseidonPublicKey::write_le, lines 69-71.
write_le(pk) == FieldWriteLE(ToXCoordinate(pk))

\* One attempt of read_le without the subgroup test.
ReadAttemptUnchecked(x, greatest) == FromXCoordinate(x, greatest)
\* One attempt of read_le, lines 80-84 and 86-90.
ReadAttempt(x, greatest) ==
    LET element == FromXCoordinate(x, greatest)
    IN  IF element.some /\ IsInCorrectSubgroup(element.val) THEN element ELSE None

\* ECIESPoseidonPublicKey::read_le, lines 77-93.
read_le(bytes) ==
    LET x_coordinate == FieldReadLE(bytes)
    IN  IF ~x_coordinate.some THEN [kind |-> "Err"]
        ELSE IF ReadAttempt(x_coordinate.val, TRUE).some
             THEN [kind |-> "Ok", key |-> ReadAttempt(x_coordinate.val, TRUE).val]
        ELSE IF ReadAttempt(x_coordinate.val, FALSE).some
             THEN [kind |-> "Ok", key |-> ReadAttempt(x_coordinate.val, FALSE).val]
        ELSE [kind |-> "Err"]

\* -------------------------------------------------------- key agreement
\* generate_public_key, lines 141-143.
generate_public_key(gen, sk) == ScalarMul(gen, sk)

\* generate_asymmetric_key, lines 154-176, for the sampled `randomness`.
generate_asymmetric_key(gen, pk, randomness) ==
    LET bs  == BitsBEWithoutLeadingZeros(randomness, SCALAR_REPR_BITS)
        c_r == MulBits(gen, bs)
        key == MulBits(pk, bs)
    IN  [randomness |-> randomness,
         ciphertext_randomizer |-> ToXCoordinate(c_r),
         symmetric_key |-> ToXCoordinate(key)]

\* One attempt of generate_symmetric_key without the subgroup test.
RecoverAttemptUnchecked(x, greatest) == FromXCoordinate(x, greatest)
\* One attempt of generate_symmetric_key, lines 193-197 and 199-203.
RecoverAttempt(x, greatest) ==
    LET element == FromXCoordinate(x, greatest)
    IN  IF element.some /\ IsInCorrectSubgroup(element.val) THEN element ELSE None

\* The first attempt alone.
RecoverRandomizerFirstOnly(x) == RecoverAttempt(x, TRUE)
\* generate_symmetric_key, lines 191-204: the local `randomizer`.
RecoverRandomizer(x) ==
    IF RecoverAttempt(x, TRUE).some THEN RecoverAttempt(x, TRUE)
    ELSE RecoverAttempt(x, FALSE)

\* generate_symmetric_key, lines 185-212.
generate_symmetric_key(sk, ciphertext_randomizer) ==
    LET rand == RecoverRandomizer(ciphertext_randomizer)
    IN  IF rand.some
        THEN Some(ToXCoordinate(
                MulBits(rand.val, BitsBEWithoutLeadingZeros(sk, SCALAR_REPR_BITS))))
        ELSE None

\* ------------------------------------------------------------------ state
VARIABLES
    message,            \* the bytes handed to encode_message
    encoded,            \* what encode_message returned, once it ran
    plaintext,          \* an element sequence handed to encrypt as it is
    symmetric_key,      \* the symmetric key of encrypt and decrypt
    ciphertext,         \* what encrypt returned, once it ran
    received,           \* the ciphertext as it reaches decrypt
    tamperedAt,         \* the index replaced in transit, 0 when none was
    decrypted,          \* what decrypt returned, once it ran
    encoded_message,    \* decode_message's argument
    dpc,                \* decode_message's position: "idle", "loop", "done"
    bits,               \* decode_message's bit buffer
    decoded,            \* what decode_message returned, once it returned
    emptyPops,          \* loop iterations of decode_message on an empty buffer
    generator,          \* the scheme's generator
    private_key,        \* the recipient's private key
    public_key,         \* generate_public_key's result, once it ran
    pk_bytes,           \* the public key as written by write_le
    pk_read,            \* what read_le returned, once it ran
    exchange,           \* generate_asymmetric_key's result, once it ran
    wire_randomizer,    \* the randomizer as it reaches generate_symmetric_key
    randomizer,         \* generate_symmetric_key's local `randomizer`
    recovered           \* what generate_symmetric_key returned, once it ran

codecVars  == <<message, encoded>>
cipherVars == <<plaintext, symmetric_key, ciphertext, received, tamperedAt, decrypted>>
decodeVars == <<encoded_message, dpc, bits, decoded, emptyPops>>
keyVars    == <<generator, private_key, public_key, pk_bytes, pk_read, exchange,
                wire_randomizer, randomizer, recovered>>
vars == <<message, encoded, plaintext, symmetric_key, ciphertext, received,
          tamperedAt, decrypted, encoded_message, dpc, bits, decoded, emptyPops,
          generator, private_key, public_key, pk_bytes, pk_read, exchange,
          wire_randomizer, randomizer, recovered>>

Messages == SeqsUpTo(ByteValues, MaxLen)
ElementSeqs == SeqsUpTo(Field, MaxElems)

\* Nothing has run yet.
IdleCodec == message = <<>> /\ encoded = None
IdleCipher ==
    /\ plaintext = <<>> /\ symmetric_key = 0 /\ ciphertext = None
    /\ received = None /\ tamperedAt = 0 /\ decrypted = None
IdleDecode ==
    /\ encoded_message = <<>> /\ dpc = "idle" /\ bits = <<>>
    /\ decoded = None /\ emptyPops = 0
IdleKey ==
    /\ generator = <<3, 9>> /\ private_key = 0 /\ public_key = None
    /\ pk_bytes = None /\ pk_read = None /\ exchange = None
    /\ wire_randomizer = None /\ randomizer = None /\ recovered = None

\* ------------------------------------------------- message codec, as steps
\* encode_message(message), lines 231-256.
EncodeMessage ==
    /\ encoded = None
    /\ encoded' = Some(encode_message(message))
    /\ UNCHANGED <<message, cipherVars, decodeVars, keyVars>>

\* decode_message up to its loop, lines 261-268.
DecodeStart(elems) ==
    /\ dpc = "idle"
    /\ encoded_message' = elems
    /\ bits' = DecodeBits(elems)
    /\ dpc' = "loop"
    /\ UNCHANGED <<decoded, emptyPops>>

\* decode_message on what encode_message returned.
DecodeEncoded ==
    /\ encoded # None
    /\ encoded.val.kind = "Ok"
    /\ DecodeStart(encoded.val.elems)
    /\ UNCHANGED <<codecVars, cipherVars, keyVars>>

\* decode_message on the element sequence it was given.
DecodeMessage ==
    /\ DecodeStart(encoded_message)
    /\ UNCHANGED <<codecVars, cipherVars, keyVars>>

\* One iteration of the loop of lines 272-276, `if let Some(true) = bits.pop()
\* { break; }`, and on the break the rest of the function.  pop() on an empty
\* buffer returns None, which is not Some(true): the loop goes on.
DecodeLoop ==
    /\ dpc = "loop"
    /\ IF bits = <<>>
       THEN /\ emptyPops < MaxEmptyPops
            /\ emptyPops' = emptyPops + 1
            /\ UNCHANGED <<dpc, bits, decoded>>
       ELSE LET popped == bits[Len(bits)]
                rest   == SubSeq(bits, 1, Len(bits) - 1)
            IN  /\ bits' = rest
                /\ IF popped
                   THEN dpc' = "done" /\ decoded' = Some(DecodeFinish(rest))
                   ELSE UNCHANGED <<dpc, decoded>>
                /\ UNCHANGED emptyPops
    /\ UNCHANGED <<encoded_message, codecVars, cipherVars, keyVars>>

\* encode_message then decode_message, for every message.
InitCodec ==
    \E b \in Messages :
        /\ message = b /\ encoded = None
        /\ IdleCipher /\ IdleDecode /\ IdleKey
NextCodec == EncodeMessage \/ DecodeEncoded \/ DecodeLoop
SpecCodec == InitCodec /\ [][NextCodec]_vars

\* decode_message on every element sequence.
InitDecode ==
    \E e \in ElementSeqs :
        /\ encoded_message = e /\ dpc = "idle" /\ bits = <<>>
        /\ decoded = None /\ emptyPops = 0
        /\ IdleCodec /\ IdleCipher /\ IdleKey
NextDecode == DecodeMessage \/ DecodeLoop
SpecDecode == InitDecode /\ [][NextDecode]_vars


\* ------------------------------------------------- stream cipher, as steps
Plaintexts == SeqsUpTo(Field, MaxPlain)
SentMessages == SeqsUpTo(ByteValues, MaxSendLen)

\* encrypt(symmetric_key, plaintext).
EncryptPlaintext ==
    /\ ciphertext = None
    /\ ciphertext' = Some(encrypt(symmetric_key, plaintext))
    /\ UNCHANGED <<plaintext, symmetric_key, received, tamperedAt, decrypted>>
    /\ UNCHANGED <<codecVars, decodeVars, keyVars>>

\* encrypt(symmetric_key, encode_message(message)).
EncryptEncoded ==
    /\ encoded # None
    /\ encoded.val.kind = "Ok"
    /\ ciphertext = None
    /\ ciphertext' = Some(encrypt(symmetric_key, encoded.val.elems))
    /\ UNCHANGED <<plaintext, symmetric_key, received, tamperedAt, decrypted>>
    /\ UNCHANGED <<codecVars, decodeVars, keyVars>>

\* The ciphertext reaches the recipient as it was sent.
Deliver ==
    /\ ciphertext # None
    /\ ciphertext.val.kind = "Ok"
    /\ received = None
    /\ received' = Some(ciphertext.val.elems)
    /\ UNCHANGED <<plaintext, symmetric_key, ciphertext, tamperedAt, decrypted>>
    /\ UNCHANGED <<codecVars, decodeVars, keyVars>>

\* The ciphertext reaches the recipient with one element replaced by another
\* field element.
Tamper ==
    /\ ciphertext # None
    /\ ciphertext.val.kind = "Ok"
    /\ received = None
    /\ \E i \in 1 .. Len(ciphertext.val.elems) :
        \E v \in Field \ {ciphertext.val.elems[i]} :
            /\ received' = Some([ciphertext.val.elems EXCEPT ![i] = v])
            /\ tamperedAt' = i
    /\ UNCHANGED <<plaintext, symmetric_key, ciphertext, decrypted>>
    /\ UNCHANGED <<codecVars, decodeVars, keyVars>>

\* decrypt(symmetric_key, received).
Decrypt ==
    /\ received # None
    /\ decrypted = None
    /\ decrypted' = Some(decrypt(symmetric_key, received.val))
    /\ UNCHANGED <<plaintext, symmetric_key, ciphertext, received, tamperedAt>>
    /\ UNCHANGED <<codecVars, decodeVars, keyVars>>

\* decode_message on what decrypt returned.
DecodeDecrypted ==
    /\ decrypted # None
    /\ decrypted.val.kind = "Ok"
    /\ DecodeStart(decrypted.val.elems)
    /\ UNCHANGED <<codecVars, cipherVars, keyVars>>

\* encrypt then decrypt, for every key and element sequence.
InitCipher ==
    \E k \in Field, m \in Plaintexts :
        /\ plaintext = m /\ symmetric_key = k /\ ciphertext = None
        /\ received = None /\ tamperedAt = 0 /\ decrypted = None
        /\ IdleCodec /\ IdleDecode /\ IdleKey
NextCipher == EncryptPlaintext \/ Deliver \/ Decrypt
SpecCipher == InitCipher /\ [][NextCipher]_vars

\* encode, encrypt, delivery (as sent or with one element replaced), decrypt,
\* decode.
InitSend ==
    \E k \in Field, b \in SentMessages :
        /\ message = b /\ encoded = None
        /\ plaintext = <<>> /\ symmetric_key = k /\ ciphertext = None
        /\ received = None /\ tamperedAt = 0 /\ decrypted = None
        /\ IdleDecode /\ IdleKey
NextSend ==
    \/ EncodeMessage \/ EncryptEncoded \/ Deliver \/ Tamper
    \/ Decrypt \/ DecodeDecrypted \/ DecodeLoop
SpecSend == InitSend /\ [][NextSend]_vars


\* -------------------------------------------------- key agreement, as steps
\* The points of the curve and of its prime-order subgroup.
CurvePoints ==
    {pt \in Field \X Field :
        FAdd(FMul(COEFF_A, FMul(pt[1], pt[1])), FMul(pt[2], pt[2]))
            = FAdd(1, FMul(COEFF_D, FMul(FMul(pt[1], pt[1]), FMul(pt[2], pt[2]))))}

RECURSIVE Times(_, _)
Times(pt, k) == IF k = 0 THEN Zero ELSE TEAdd(Times(pt, k - 1), pt)

SubgroupPoints == {pt \in CurvePoints : Times(pt, SCALAR_MODULUS) = Zero}

\* setup, lines 132-135: hash_to_curve gives a generator of the subgroup.
Generators == SubgroupPoints \ {Zero}

\* generate_public_key(private_key).
GeneratePublicKey ==
    /\ public_key = None
    /\ public_key' = Some(generate_public_key(generator, private_key))
    /\ UNCHANGED <<generator, private_key, pk_bytes, pk_read, exchange,
                   wire_randomizer, randomizer, recovered>>
    /\ UNCHANGED <<codecVars, cipherVars, decodeVars>>

\* ECIESPoseidonPublicKey(public_key).write_le.
WritePublicKey ==
    /\ public_key # None
    /\ pk_bytes = None
    /\ pk_bytes' = Some(write_le(public_key.val))
    /\ UNCHANGED <<generator, private_key, public_key, pk_read, exchange,
                   wire_randomizer, randomizer, recovered>>
    /\ UNCHANGED <<codecVars, cipherVars, decodeVars>>

\* ECIESPoseidonPublicKey::read_le of the written bytes.
ReadPublicKey ==
    /\ pk_bytes # None
    /\ pk_read = None
    /\ pk_read' = Some(read_le(pk_bytes.val))
    /\ UNCHANGED <<generator, private_key, public_key, pk_bytes, exchange,
                   wire_randomizer, randomizer, recovered>>
    /\ UNCHANGED <<codecVars, cipherVars, decodeVars>>

\* generate_asymmetric_key(public_key, rng), for every scalar the rng can give.
GenerateAsymmetricKey ==
    /\ public_key # None
    /\ exchange = None
    /\ \E r \in Scalars :
        exchange' = Some(generate_asymmetric_key(generator, public_key.val, r))
    /\ UNCHANGED <<generator, private_key, public_key, pk_bytes, pk_read,
                   wire_randomizer, randomizer, recovered>>
    /\ UNCHANGED <<codecVars, cipherVars, decodeVars>>

\* The ciphertext randomizer reaches the recipient as it was sent.
DeliverRandomizer ==
    /\ exchange # None
    /\ wire_randomizer = None
    /\ wire_randomizer' = Some(exchange.val.ciphertext_randomizer)
    /\ UNCHANGED <<generator, private_key, public_key, pk_bytes, pk_read,
                   exchange, randomizer, recovered>>
    /\ UNCHANGED <<codecVars, cipherVars, decodeVars>>

\* Any field element reaches the recipient as the ciphertext randomizer.
ForgeRandomizer ==
    /\ wire_randomizer = None
    /\ \E x \in Field : wire_randomizer' = Some(x)
    /\ UNCHANGED <<generator, private_key, public_key, pk_bytes, pk_read,
                   exchange, randomizer, recovered>>
    /\ UNCHANGED <<codecVars, cipherVars, decodeVars>>

\* generate_symmetric_key(private_key, wire_randomizer).
GenerateSymmetricKey ==
    /\ wire_randomizer # None
    /\ recovered = None
    /\ randomizer' = RecoverRandomizer(wire_randomizer.val)
    /\ recovered' = Some(generate_symmetric_key(private_key, wire_randomizer.val))
    /\ UNCHANGED <<generator, private_key, public_key, pk_bytes, pk_read,
                   exchange, wire_randomizer>>
    /\ UNCHANGED <<codecVars, cipherVars, decodeVars>>

InitKey ==
    \E g \in Generators, sk \in Scalars :
        /\ generator = g /\ private_key = sk /\ public_key = None
        /\ pk_bytes = None /\ pk_read = None /\ exchange = None
        /\ wire_randomizer = None /\ randomizer = None /\ recovered = None
        /\ IdleCodec /\ IdleCipher /\ IdleDecode
NextKey ==
    \/ GeneratePublicKey \/ WritePublicKey \/ ReadPublicKey
    \/ GenerateAsymmetricKey \/ DeliverRandomizer \/ ForgeRandomizer
    \/ GenerateSymmetricKey
SpecKey == InitKey /\ [][NextKey]_vars


\* ================================================================ claims
\* The index of the last 1 bit of a bit sequence, 0 when there is none.
LastOne(bs) ==
    IF \E i \in 1 .. Len(bs) : bs[i]
    THEN CHOOSE i \in 1 .. Len(bs) : bs[i] /\ \A j \in (i + 1) .. Len(bs) : ~bs[j]
    ELSE 0

\* C1: for every message b, encode_message(b) succeeds and decode_message of
\* its result returns Ok(b), without ever running its loop on an empty buffer.
C1_CodecRoundTrip ==
    /\ encoded # None => encoded.val.kind = "Ok"
    /\ emptyPops = 0
    /\ dpc = "done" => decoded = Some([kind |-> "Ok", bytes |-> message])

\* C1's case: a one-byte message, whose 9 bits exactly fill 3 elements, has
\* been encoded and decoded back.
C1_Witness ==
    /\ dpc = "done"
    /\ Len(message) = 1
    /\ Len(encoded.val.elems) * CAPACITY = 8 * Len(message) + 1
    /\ decoded.val.bytes = message

\* C4: decode_message on an input with no 1 bit among the kept bits returns
\* an error value: once its loop has popped an empty buffer, it has returned
\* an error.
C4_NoTerminatorIsAnError ==
    emptyPops > 0 => (dpc = "done" /\ decoded # None /\ decoded.val.kind = "Err")

\* C8: when decode_message returns, with k the position of the last 1 bit of
\* the kept bits, it returns the length error if k - 1 is not a multiple of
\* 8, and Ok with (k - 1) / 8 bytes if it is.
C8_LengthCheck ==
    dpc = "done" =>
        LET remaining == LastOne(DecodeBits(encoded_message)) - 1
        IN  /\ Len(bits) = remaining
            /\ IF remaining % 8 # 0
               THEN decoded.val.kind = "Err"
               ELSE /\ decoded.val.kind = "Ok"
                    /\ Len(decoded.val.bytes) = remaining \div 8

\* C8's case: decode_message has returned the length error, 5 bits remaining.
C8_Witness ==
    /\ dpc = "done"
    /\ Len(bits) = 5
    /\ decoded.val.kind = "Err"

\* C9: encode_message of the empty message is the single element 1, and
\* decode_message of it is the empty message.
C9_EmptyMessage ==
    message = <<>> =>
        /\ encoded # None => encoded.val = [kind |-> "Ok", elems |-> <<1>>]
        /\ dpc = "done" => /\ encoded_message = <<1>>
                           /\ decoded = Some([kind |-> "Ok", bytes |-> <<>>])

\* C9's case: the empty message has been encoded and decoded.
C9_Witness ==
    /\ message = <<>>
    /\ encoded # None
    /\ dpc = "done"
    /\ decoded.val.kind = "Ok"

\* C10: every element encode_message produces is below 2^capacity (no
\* unwrap panics), the last one is not zero, and decode_message's scan of
\* such elements stops inside the last element.
C10_EncodedElementsInRange ==
    /\ encoded # None =>
        /\ encoded.val.kind = "Ok"
        /\ \A i \in 1 .. Len(encoded.val.elems) :
              encoded.val.elems[i] < Pow(2, CAPACITY)
        /\ encoded.val.elems # <<>>
        /\ encoded.val.elems[Len(encoded.val.elems)] # 0
    /\ dpc = "loop" => \E i \in 1 .. Len(bits) :
                          bits[i] /\ i > (Len(encoded_message) - 1) * CAPACITY
    /\ dpc = "done" => Len(bits) >= (Len(encoded_message) - 1) * CAPACITY

\* C10's case: a message ending in a zero byte has been encoded into several
\* elements and the scan has stopped.
C10_Witness ==
    /\ dpc = "done"
    /\ Len(message) = 2
    /\ message[2] = 0
    /\ Len(encoded_message) = 6
    /\ encoded_message[6] = 2

\* C3: encrypt(k, m) has the length of m, element i being m[i] plus the i-th
\* element squeezed after absorbing (encryption domain, k), and decrypt of it
\* under k is m.
C3_CipherRoundTrip ==
    /\ ciphertext # None =>
        /\ ciphertext.val.kind = "Ok"
        /\ Len(ciphertext.val.elems) = Len(plaintext)
        /\ \A i \in 1 .. Len(plaintext) :
              ciphertext.val.elems[i] =
                  (plaintext[i]
                   + SpongeSqueeze(SpongeAbsorb(SpongeNew,
                        <<symmetric_encryption_domain, symmetric_key>>), i)[i]) % MODULUS
    /\ decrypted # None => decrypted.val = [kind |-> "Ok", elems |-> plaintext]

\* C3's case: two elements were encrypted to something else and decrypted.
C3_Witness ==
    /\ decrypted # None
    /\ Len(plaintext) = 2
    /\ ciphertext.val.elems # plaintext
    /\ decrypted.val.elems = plaintext

\* C7, as stated: after one ciphertext element is replaced, decrypt and
\* decode_message return Ok with bytes other than the message, never an error
\* or anything else.
C7_TamperingAlwaysDecodesToOtherBytes ==
    (tamperedAt # 0 /\ decrypted # None) =>
        /\ decrypted.val.kind = "Ok"
        /\ emptyPops = 0
        /\ dpc = "done" => /\ decoded.val.kind = "Ok"
                           /\ decoded.val.bytes # message

\* C7, amended: after one ciphertext element is replaced, decrypt returns,
\* without an error, the encoded message changed in exactly that element;
\* decode_message of it returns Ok(message) exactly when the changed element
\* keeps its low `capacity` bits, and otherwise other bytes or the length
\* error (or goes on looping on an empty buffer).
C7_TamperingUndetectedByDecrypt ==
    (tamperedAt # 0 /\ decrypted # None) =>
        /\ decrypted.val.kind = "Ok"
        /\ Len(decrypted.val.elems) = Len(encoded.val.elems)
        /\ \A j \in 1 .. Len(encoded.val.elems) :
              (decrypted.val.elems[j] = encoded.val.elems[j]) <=> (j # tamperedAt)
        /\ dpc = "done" =>
              ((decoded.val = [kind |-> "Ok", bytes |-> message])
                  <=> (decrypted.val.elems[tamperedAt] % Pow(2, CAPACITY)
                          = encoded.val.elems[tamperedAt]))
        /\ emptyPops > 0 => \A j \in 1 .. Len(decrypted.val.elems) :
                               decrypted.val.elems[j] % Pow(2, CAPACITY) = 0

\* C7's case: one element was replaced and decode_message returned Ok with
\* other bytes.
C7_Witness ==
    /\ tamperedAt # 0
    /\ dpc = "done"
    /\ decoded.val.kind = "Ok"
    /\ Len(message) = 1
    /\ decoded.val.bytes # message

\* The points of the curve with x-coordinate x.
PointsAt(x) == {pt \in CurvePoints : pt[1] = x}
\* Of those, the one with the greater, and the one with the lesser, y.
GreaterAt(x) == CHOOSE pt \in PointsAt(x) : \A q \in PointsAt(x) : q[2] <= pt[2]
LesserAt(x) == CHOOSE pt \in PointsAt(x) : \A q \in PointsAt(x) : q[2] >= pt[2]

\* C2: when the randomizer of generate_asymmetric_key(pk) reaches
\* generate_symmetric_key(sk, .) with pk = generator^sk, it returns Some of the
\* symmetric key generate_asymmetric_key returned.
C2_KeyAgreement ==
    (/\ exchange # None
     /\ recovered # None
     /\ wire_randomizer = Some(exchange.val.ciphertext_randomizer)) =>
        recovered.val = Some(exchange.val.symmetric_key)

\* C2's case: the exchange ran with the scalar 0 and a nonzero private key,
\* and the recipient recovered the key.
C2_Witness ==
    /\ exchange # None
    /\ recovered # None
    /\ private_key # 0
    /\ exchange.val.randomness = 0
    /\ wire_randomizer = Some(exchange.val.ciphertext_randomizer)
    /\ recovered.val.some

\* C5: generate_symmetric_key accepts the point with the greater y (sign
\* convention true) when it is in the subgroup, else the one with the lesser
\* y when that is, and returns Some(x of accepted^private_key); it returns
\* None exactly when no subgroup point has the x-coordinate.
C5_TwoAttemptResolution ==
    recovered # None =>
        LET x == wire_randomizer.val
            accepted ==
                IF PointsAt(x) # {} /\ GreaterAt(x) \in SubgroupPoints
                THEN Some(GreaterAt(x))
                ELSE IF PointsAt(x) # {} /\ LesserAt(x) \in SubgroupPoints
                THEN Some(LesserAt(x))
                ELSE None
        IN  /\ randomizer = accepted
            /\ recovered.val =
                  IF accepted.some
                  THEN Some(Times(accepted.val, private_key)[1])
                  ELSE None
            /\ (recovered.val = None) <=> (PointsAt(x) \cap SubgroupPoints = {})

\* C5's case: an x-coordinate of curve points none of which is in the
\* subgroup was rejected.
C5_Witness ==
    /\ recovered # None
    /\ PointsAt(wire_randomizer.val) # {}
    /\ recovered.val = None

\* C6: read_le of the bytes write_le wrote for a subgroup point returns that
\* point, and at most one point with its x-coordinate is in the subgroup.
C6_PublicKeyRoundTrip ==
    /\ public_key # None =>
        /\ public_key.val \in SubgroupPoints
        /\ Cardinality(PointsAt(public_key.val[1]) \cap SubgroupPoints) <= 1
    /\ pk_read # None => pk_read.val = [kind |-> "Ok", key |-> public_key.val]

\* C6's case: the identity was written and read back.
C6_Witness ==
    /\ pk_read # None
    /\ public_key.val = Zero
    /\ pk_read.val.kind = "Ok"

=============================================================================
